---- MODULE Spec2Model ----
(***************************************************************************)
(* Model of storage-proofs/src/circuit/porc.rs (the PoRC circuit and its   *)
(* public-input generator) and storage-proofs/src/crypto/sloth.rs.         *)
(*                                                                         *)
(* Field elements of the circuit are terms: a sequence of integers in      *)
(* prefix form.  <<n>> with n >= 0 is the field element n; the x           *)
(* coordinate of pedersen_hash(MerkleTree(i), xl ++ xr) is                 *)
(* <<-(i+1)>> \o xl \o xr.  The hash is thereby collision free and         *)
(* separated by level, which is the property the circuit relies on.        *)
(* The sloth functions do field arithmetic; there a field element is an    *)
(* integer modulo FrModulus.                                               *)
(***************************************************************************)
EXTENDS Integers, Sequences, FiniteSets, TLC

\* ------------------------------------------------------------------ bounds
MaxDepth == 2        \* tree depths 0..MaxDepth in Spec
MaxN == 2            \* at most MaxN challenges and MaxN commitments
MaxChallenge == 4    \* challenges are drawn from 0..MaxChallenge
MaxSeed == 2         \* replica data is drawn from MaxSeed+1 data sets
FrModulus == 7       \* stand-in for the order r of bls12_381::Fr (sloth)

\* ------------------------------------------------------- program constants
FrCapacity == 254    \* Fr::CAPACITY of bls12_381: r has 255 bits
TestLeaves == 32     \* leaves of the trees of test_porc_circuit_with_bls12_381
TestSectors == 2     \* sectors_count of the same test: two challenges

VARIABLES
    pc,           \* position in the pipeline
    leaves,       \* pub_params.leaves
    challenges,   \* pub_in.challenges
    seeds,        \* priv_inputs: the data set behind each tree
    commitments,  \* pub_in.commitments: the roots of the trees
    proof,        \* the vanilla proof: leafs and paths
    circ,         \* the PoRCCircuit: challenged_leafs, commitments, paths
    tamper,       \* what the environment changed in circ, if anything
    mode,         \* kind of constraint system synthesize ran on
    cs,           \* the constraint system
    result,       \* outcome of synthesize
    inputs,       \* result of generate_public_inputs
    key, plaintext, ciphertext, dkey, decrypted   \* sloth

porcVars == <<pc, leaves, challenges, seeds, commitments, proof, circ, tamper,
              mode, cs, result, inputs>>
slothVars == <<key, plaintext, ciphertext, dkey, decrypted>>
vars == <<pc, leaves, challenges, seeds, commitments, proof, circ, tamper,
          mode, cs, result, inputs, key, plaintext, ciphertext, dkey, decrypted>>

\* ------------------------------------------------------------------- sloth
Fr == 0 .. (FrModulus - 1)

\* Fr::add_assign and Fr::sub_assign: arithmetic modulo the field order.
AddAssign(a, b) == (a + b) % FrModulus
SubAssign(a, b) == (a - b + FrModulus) % FrModulus

encode(k, p) == AddAssign(p, k)

decode_wrongop(k, c) == AddAssign(c, k)
decode(k, c) == SubAssign(c, k)

\* ------------------------------------------------------------ field terms
RECURSIVE Pow2(_)
Pow2(n) == IF n = 0 THEN 1 ELSE 2 * Pow2(n - 1)

Raw(n) == <<n>>
FrOne == Raw(1)
FrZero == Raw(0)

\* pedersen_hash(Personalization::MerkleTree(i), xl ++ xr).get_x()
PedersenHash(i, xl, xr) == <<-(i + 1)>> \o xl \o xr

\* Option<Fr> and Option<(Fr, bool)>
NoneFr == [some |-> FALSE, v |-> <<>>]
SomeFr(x) == [some |-> TRUE, v |-> x]
NoneStep == [some |-> FALSE, v |-> <<>>, bit |-> FALSE]
SomeStep(x, b) == [some |-> TRUE, v |-> x, bit |-> b]

\* -------------------------------------------- the vanilla scheme (consumed)
\* Replica data: leaf j of data set s.  Set 0 is constant (every node equals
\* its sibling); larger sets have more distinct leaves.
Leaf(s, j) == Raw(j % (s + 1))

\* Node k at height h of the merkle tree over data set s.
RECURSIVE TreeNode(_, _, _)
TreeNode(s, h, k) ==
    IF h = 0 THEN Leaf(s, k)
    ELSE PedersenHash(h - 1, TreeNode(s, h - 1, 2 * k), TreeNode(s, h - 1, 2 * k + 1))

RECURSIVE GraphHeight(_)
GraphHeight(n) == IF n <= 1 THEN 0 ELSE 1 + GraphHeight((n + 1) \div 2)

TreeRoot(s, n) == TreeNode(s, GraphHeight(n), 0)

\* tree.gen_proof(idx): sibling and is_right bit per level, leaf level first.
GenProof(s, n, idx) ==
    [l \in 1 .. GraphHeight(n) |->
        LET k == idx \div Pow2(l - 1)
        IN  [v |-> TreeNode(s, l - 1, IF k % 2 = 1 THEN k - 1 ELSE k + 1),
             bit |-> (k % 2 = 1)]]

\* slice_mod(fr_into_bytes(challenge), leaves)
slice_mod(c, n) == c % n

challenge_into_auth_path_bits(c, n) ==
    [l \in 1 .. GraphHeight(n) |-> ((c \div Pow2(l - 1)) % 2 = 1)]

Min(a, b) == IF a <= b THEN a ELSE b

\* PoRC::prove: one leaf and one path per (challenge, tree) pair.
VanillaProve(chs, sds, n) ==
    LET m == Min(Len(chs), Len(sds))
    IN  [leafs |-> [i \in 1 .. m |-> Leaf(sds[i], slice_mod(chs[i], n))],
         paths |-> [i \in 1 .. m |-> GenProof(sds[i], n, slice_mod(chs[i], n))]]

\* ------------------------------------------------ the constraint system
\* TestConstraintSystem::new(): the public input ONE, nothing else.
NewCS == [inputs |-> <<SomeFr(FrOne)>>, aux |-> <<>>, constraints |-> <<>>]

Aux(i) == [k |-> "aux", i |-> i]
Input(i) == [k |-> "input", i |-> i]
Val(c, ref) == IF ref.k = "aux" THEN c.aux[ref.i] ELSE c.inputs[ref.i]
LastAux(st) == Aux(Len(st.cs.aux))

\* cs.alloc(|| name, || value): a witnessing system evaluates the closure and
\* propagates its error; a setup system never calls it.
Alloc_default(st, md, opt) ==
    IF st.err # "Ok" THEN st
    ELSE [st EXCEPT !.cs.aux =
            Append(@, IF md = "witness"
                      THEN (IF opt.some THEN SomeFr(opt.v) ELSE SomeFr(FrZero))
                      ELSE NoneFr)]
Alloc(st, md, opt) ==
    IF st.err # "Ok" THEN st
    ELSE IF md = "witness" /\ ~opt.some THEN [st EXCEPT !.err = "AssignmentMissing"]
    ELSE [st EXCEPT !.cs.aux = Append(@, IF md = "witness" THEN SomeFr(opt.v) ELSE NoneFr)]

AllocInput(st, md, opt) ==
    IF st.err # "Ok" THEN st
    ELSE IF md = "witness" /\ ~opt.some THEN [st EXCEPT !.err = "AssignmentMissing"]
    ELSE [st EXCEPT !.cs.inputs = Append(@, IF md = "witness" THEN SomeFr(opt.v) ELSE NoneFr)]

Enforce(st, op, tag, vs) ==
    IF st.err # "Ok" THEN st
    ELSE [st EXCEPT !.cs.constraints = Append(@, [op |-> op, tag |-> tag, vars |-> vs])]

\* boolean::AllocatedBit::alloc(cs, e.map(|e| e.1)): (1 - a) * a = 0
AllocBit(st, md, e) ==
    LET s1 == Alloc(st, md, IF e.some THEN SomeFr(IF e.bit THEN FrOne ELSE FrZero)
                            ELSE NoneFr)
    IN  Enforce(s1, "boolean", 0, <<LastAux(s1)>>)

\* One half of num::AllocatedNum::conditionally_reverse: allocate
\* c = if cond { b } else { a } and enforce (a - b) * cond = a - c.
Select(st, md, a, b, cond) ==
    LET va == Val(st.cs, a)
        vb == Val(st.cs, b)
        vc == Val(st.cs, cond)
        s1 == Alloc(st, md, IF va.some /\ vb.some /\ vc.some
                            THEN (IF vc.v = FrOne THEN vb ELSE va)
                            ELSE NoneFr)
    IN  Enforce(s1, "select", 0, <<a, b, cond, LastAux(s1)>>)

\* conditionally_reverse(a, b, cond): (xl, xr) = if cond { (b, a) } else { (a, b) }
ConditionallyReverse_noswap(st, md, a, b, cond) ==
    IF st.err # "Ok" THEN [st |-> st, xl |-> a, xr |-> b]
    ELSE LET s1 == Select(st, md, a, a, cond)
             s2 == Select(s1, md, b, b, cond)
         IN  [st |-> s2, xl |-> LastAux(s1), xr |-> LastAux(s2)]
ConditionallyReverse(st, md, a, b, cond) ==
    IF st.err # "Ok" THEN [st |-> st, xl |-> a, xr |-> b]
    ELSE LET s1 == Select(st, md, a, b, cond)
             s2 == Select(s1, md, b, a, cond)
         IN  [st |-> s2, xl |-> LastAux(s1), xr |-> LastAux(s2)]

\* xl.into_bits_le, xr.into_bits_le and pedersen_hash(MerkleTree(i), preimage)
\* .get_x(): the bit decompositions and the windowed hash are one relation
\* out = H_i(xl, xr) here.
HashGadget(st, md, i, xl, xr) ==
    IF st.err # "Ok" THEN st
    ELSE LET vl == Val(st.cs, xl)
             vr == Val(st.cs, xr)
             s1 == Alloc(st, md, IF vl.some /\ vr.some
                                 THEN SomeFr(PedersenHash(i, vl.v, vr.v))
                                 ELSE NoneFr)
         IN  Enforce(s1, "hash", i, <<xl, xr, LastAux(s1)>>)

\* Little-endian value of a chunk of bits.
RECURSIVE PackBits(_)
PackBits(bs) ==
    IF bs = <<>> THEN 0 ELSE (IF Head(bs) THEN 1 ELSE 0) + 2 * PackBits(Tail(bs))

\* multipack::compute_multipacking: one element per chunk of CAPACITY bits.
RECURSIVE compute_multipacking(_)
compute_multipacking(bs) ==
    IF bs = <<>> THEN <<>>
    ELSE <<Raw(PackBits(SubSeq(bs, 1, Min(Len(bs), FrCapacity))))>>
         \o compute_multipacking(SubSeq(bs, FrCapacity + 1, Len(bs)))

\* multipack::pack_into_inputs: per chunk of CAPACITY bits allocate one input
\* and enforce that it equals the weighted sum of the chunk's bits.
BitVals(c, refs) == [j \in 1 .. Len(refs) |-> Val(c, refs[j])]
AllSome(os) == \A j \in 1 .. Len(os) : os[j].some

RECURSIVE pack_into_inputs_perbit(_, _, _)
pack_into_inputs_perbit(st, md, bits) ==
    IF st.err # "Ok" \/ bits = <<>> THEN st
    ELSE LET chunk == SubSeq(bits, 1, 1)
             vs == BitVals(st.cs, chunk)
             s1 == AllocInput(st, md,
                     IF AllSome(vs)
                     THEN SomeFr(Raw(PackBits([j \in 1 .. Len(vs) |-> vs[j].v = FrOne])))
                     ELSE NoneFr)
             s2 == Enforce(s1, "pack", 0, chunk \o <<Input(Len(s1.cs.inputs))>>)
         IN  pack_into_inputs_perbit(s2, md, SubSeq(bits, 2, Len(bits)))

RECURSIVE pack_into_inputs_zero(_, _, _)
pack_into_inputs_zero(st, md, bits) ==
    IF st.err # "Ok" \/ bits = <<>> THEN st
    ELSE LET s1 == AllocInput(st, md, SomeFr(FrZero))
         IN  pack_into_inputs_zero(s1, md, SubSeq(bits, FrCapacity + 1, Len(bits)))

RECURSIVE pack_into_inputs(_, _, _)
pack_into_inputs(st, md, bits) ==
    IF st.err # "Ok" \/ bits = <<>> THEN st
    ELSE LET chunk == SubSeq(bits, 1, Min(Len(bits), FrCapacity))
             vs == BitVals(st.cs, chunk)
             s1 == AllocInput(st, md,
                     IF AllSome(vs)
                     THEN SomeFr(Raw(PackBits([j \in 1 .. Len(vs) |-> vs[j].v = FrOne])))
                     ELSE NoneFr)
             s2 == Enforce(s1, "pack", 0, chunk \o <<Input(Len(s1.cs.inputs))>>)
         IN  pack_into_inputs(s2, md, SubSeq(bits, FrCapacity + 1, Len(bits)))

\* constraint::equal(cs, a, b): a * 1 = b
ConstraintEqual_omit(st, a, b) == st
ConstraintEqual(st, a, b) == Enforce(st, "equal", 0, <<a, b>>)

\* rt.inputize(cs): allocate an input holding rt's value, enforce input = rt.
Inputize(st, md, a) ==
    IF st.err # "Ok" THEN st
    ELSE LET s1 == AllocInput(st, md, Val(st.cs, a))
         IN  Enforce(s1, "equal", 0, <<Input(Len(s1.cs.inputs)), a>>)

\* TestConstraintSystem::is_satisfied: every constraint holds of the assignment.
Holds(c, con) ==
    LET v(j) == Val(c, con.vars[j])
        n == Len(con.vars)
    IN  /\ \A j \in 1 .. n : v(j).some
        /\ CASE con.op = "boolean" -> v(1).v \in {FrZero, FrOne}
             [] con.op = "select" -> v(4).v = (IF v(3).v = FrOne THEN v(2).v ELSE v(1).v)
             [] con.op = "hash" -> v(3).v = PedersenHash(con.tag, v(1).v, v(2).v)
             [] con.op = "pack" ->
                    v(n).v = Raw(PackBits([j \in 1 .. (n - 1) |-> v(j).v = FrOne]))
             [] con.op = "equal" -> v(1).v = v(2).v

Satisfied(c) == \A j \in 1 .. Len(c.constraints) : Holds(c, c.constraints[j])

\* ------------------------------------------------- PoRCCircuit::synthesize
\* The loop "Ascend the merkle tree authentication path", from level l on.
RECURSIVE AscendPath(_, _, _, _, _, _)
AscendPath(st, md, cur, path, l, bits) ==
    IF l > Len(path) THEN [st |-> st, cur |-> cur, bits |-> bits]
    ELSE LET e == path[l]
             s1 == AllocBit(st, md, e)
             cur_is_right == LastAux(s1)
             s2 == Alloc(s1, md, IF e.some THEN SomeFr(e.v) ELSE NoneFr)
             path_element == LastAux(s2)
             r == ConditionallyReverse(s2, md, cur, path_element, cur_is_right)
             s3 == HashGadget(r.st, md, l - 1, r.xl, r.xr)
         IN  AscendPath(s3, md, LastAux(s3), path, l + 1, Append(bits, cur_is_right))

\* The body of the loop over challenges, for one challenge.
SynthesizeChallenge_commitmentfirst(st, md, challenged_leaf, path, commitment) ==
    LET s1 == Alloc(st, md, commitment)
        rt == LastAux(s1)
        s2 == Alloc(s1, md, challenged_leaf)
        a == AscendPath(s2, md, LastAux(s2), path, 1, <<>>)
        s3 == Inputize(a.st, md, rt)
        s4 == pack_into_inputs(s3, md, a.bits)
    IN  ConstraintEqual(s4, a.cur, rt)
SynthesizeChallenge(st, md, challenged_leaf, path, commitment) ==
    LET s1 == Alloc(st, md, commitment)
        rt == LastAux(s1)
        s2 == Alloc(s1, md, challenged_leaf)
        a == AscendPath(s2, md, LastAux(s2), path, 1, <<>>)
        s3 == pack_into_inputs(a.st, md, a.bits)
        s4 == ConstraintEqual(s3, a.cur, rt)
    IN  Inputize(s4, md, rt)

RECURSIVE SynthesizeLoop(_, _, _, _)
SynthesizeLoop(st, md, c, i) ==
    IF i > Len(c.challenged_leafs) \/ st.err # "Ok" THEN st
    ELSE SynthesizeLoop(
            SynthesizeChallenge(st, md, c.challenged_leafs[i], c.paths[i], c.commitments[i]),
            md, c, i + 1)

\* synthesize(self, cs): the two assert_eq! abort the call before the loop.
synthesize(c, md, cs0) ==
    IF Len(c.challenged_leafs) # Len(c.paths) \/ Len(c.paths) # Len(c.commitments)
    THEN [cs |-> cs0, err |-> "Panic"]
    ELSE SynthesizeLoop([cs |-> cs0, err |-> "Ok"], md, c, 1)

\* ------------------------------------- PoRCCompound::generate_public_inputs
RECURSIVE generate_public_inputs_allchallenges(_, _, _)
generate_public_inputs_allchallenges(chs, comms, n) ==
    IF chs = <<>> THEN <<>>
    ELSE compute_multipacking(challenge_into_auth_path_bits(slice_mod(Head(chs), n), n))
         \o (IF comms = <<>> THEN <<>> ELSE <<Head(comms)>>)
         \o generate_public_inputs_allchallenges(
                Tail(chs), IF comms = <<>> THEN <<>> ELSE Tail(comms), n)

RECURSIVE generate_public_inputs_commitmentfirst(_, _, _)
generate_public_inputs_commitmentfirst(chs, comms, n) ==
    IF chs = <<>> \/ comms = <<>> THEN <<>>
    ELSE <<Head(comms)>>
         \o compute_multipacking(challenge_into_auth_path_bits(slice_mod(Head(chs), n), n))
         \o generate_public_inputs_commitmentfirst(Tail(chs), Tail(comms), n)

RECURSIVE generate_public_inputs(_, _, _)
generate_public_inputs(chs, comms, n) ==
    IF chs = <<>> \/ comms = <<>> THEN <<>>
    ELSE compute_multipacking(challenge_into_auth_path_bits(slice_mod(Head(chs), n), n))
         \o <<Head(comms)>>
         \o generate_public_inputs(Tail(chs), Tail(comms), n)

\* ------------------------------------------------- PoRCCompound::circuit
circuit(comms, vanilla_proof) ==
    [challenged_leafs |->
        [i \in 1 .. Len(vanilla_proof.leafs) |-> SomeFr(vanilla_proof.leafs[i])],
     commitments |-> [i \in 1 .. Len(comms) |-> SomeFr(comms[i])],
     paths |->
        [i \in 1 .. Len(vanilla_proof.paths) |->
            [l \in 1 .. Len(vanilla_proof.paths[i]) |->
                SomeStep(vanilla_proof.paths[i][l].v, vanilla_proof.paths[i][l].bit)]]]

\* ------------------------------------------------------------ the machine
NoProof == [leafs |-> <<>>, paths |-> <<>>]
NoCircuit == [challenged_leafs |-> <<>>, commitments |-> <<>>, paths |-> <<>>]
NoTamper == [kind |-> "none", i |-> 0, l |-> 0]

SlothIdle ==
    /\ key = 0 /\ plaintext = 0 /\ ciphertext = 0 /\ dkey = 0 /\ decrypted = 0

PorcIdle ==
    /\ leaves = 1 /\ challenges = <<>> /\ seeds = <<>> /\ commitments = <<>>
    /\ proof = NoProof /\ circ = NoCircuit /\ tamper = NoTamper
    /\ mode = "none" /\ cs = NewCS /\ result = "none" /\ inputs = <<>>

\* Public and private inputs of one run: nCh challenges c0, c0+1, ... and nCo
\* trees over the data sets s0, s0+sStep, ... (sStep = 0: the same data, as
\* tree1 and tree2 of the tests).
InitPorc(leafCounts, counts) ==
    \E n \in leafCounts, nCh \in counts, nCo \in counts,
       c0 \in 0 .. MaxChallenge, s0 \in 0 .. MaxSeed, sStep \in {0, 1} :
        /\ pc = "start"
        /\ leaves = n
        /\ challenges = [i \in 1 .. nCh |-> (c0 + i - 1) % (MaxChallenge + 1)]
        /\ seeds = [i \in 1 .. nCo |-> (s0 + (i - 1) * sStep) % (MaxSeed + 1)]
        /\ commitments =
              [i \in 1 .. nCo |-> TreeRoot((s0 + (i - 1) * sStep) % (MaxSeed + 1), n)]
        /\ proof = NoProof /\ circ = NoCircuit /\ tamper = NoTamper
        /\ mode = "none" /\ cs = NewCS /\ result = "none" /\ inputs = <<>>
        /\ SlothIdle

Init == InitPorc({Pow2(d) : d \in 0 .. MaxDepth}, 0 .. MaxN)

\* The scenario of the unit tests: two challenges, two trees of 32 leaves.
InitTest == InitPorc({TestLeaves}, {TestSectors})

InitSloth ==
    /\ pc = "sloth"
    /\ PorcIdle
    /\ key \in Fr /\ plaintext \in Fr
    /\ ciphertext = 0 /\ dkey = 0 /\ decrypted = 0

GeneratePublicInputs ==
    /\ pc = "start"
    /\ inputs' = generate_public_inputs(challenges, commitments, leaves)
    /\ pc' = "inputs"
    /\ UNCHANGED <<leaves, challenges, seeds, commitments, proof, circ, tamper,
                   mode, cs, result>>
    /\ UNCHANGED slothVars

Prove ==
    /\ pc = "inputs"
    /\ proof' = VanillaProve(challenges, seeds, leaves)
    /\ pc' = "proved"
    /\ UNCHANGED <<leaves, challenges, seeds, commitments, circ, tamper,
                   mode, cs, result, inputs>>
    /\ UNCHANGED slothVars

Circuit ==
    /\ pc = "proved"
    /\ circ' = circuit(commitments, proof)
    /\ pc' = "circuit"
    /\ UNCHANGED <<leaves, challenges, seeds, commitments, proof, tamper,
                   mode, cs, result, inputs>>
    /\ UNCHANGED slothVars

\* The value reached from leaf after the first l steps of path: hash
\* (current, sibling) when the bit is false, (sibling, current) when true.
RECURSIVE HashUp(_, _, _)
HashUp(leaf, path, l) ==
    IF l = 0 THEN leaf
    ELSE LET cur == HashUp(leaf, path, l - 1)
             e == path[l]
         IN  IF e.bit THEN PedersenHash(l - 1, e.v, cur)
             ELSE PedersenHash(l - 1, cur, e.v)

\* The fields of PoRCCircuit are public: a caller may hand synthesize any
\* instance.  Each action below changes the instance built by circuit() in
\* one way; tamper records which.
Tampering(c, kind, i, l) ==
    /\ pc = "circuit"
    /\ circ' = c
    /\ tamper' = [kind |-> kind, i |-> i, l |-> l]
    /\ pc' = "tampered"
    /\ UNCHANGED <<leaves, challenges, seeds, commitments, proof, mode, cs, result, inputs>>
    /\ UNCHANGED slothVars

CorruptSibling ==
    /\ pc = "circuit"
    /\ \E i \in 1 .. Len(circ.paths) : \E l \in 1 .. Len(circ.paths[i]) :
        \E v \in {FrZero, FrOne,
                  HashUp(circ.challenged_leafs[i].v, circ.paths[i], l - 1)} :
            /\ v # circ.paths[i][l].v
            /\ Tampering([circ EXCEPT !.paths[i][l].v = v], "sibling", i, l)

FlipBit ==
    /\ pc = "circuit"
    /\ \E i \in 1 .. Len(circ.paths) : \E l \in 1 .. Len(circ.paths[i]) :
        Tampering([circ EXCEPT !.paths[i][l].bit = ~@], "bit", i, l)

CorruptLeaf ==
    /\ pc = "circuit"
    /\ \E i \in 1 .. Len(circ.challenged_leafs) : \E v \in {FrZero, FrOne} :
        /\ v # circ.challenged_leafs[i].v
        /\ Tampering([circ EXCEPT !.challenged_leafs[i] = SomeFr(v)], "leaf", i, 0)

SwapCommitment ==
    /\ pc = "circuit"
    /\ \E i \in 1 .. Len(circ.commitments) :
        \E r \in {TreeRoot(s, leaves) : s \in 0 .. MaxSeed} \cup {FrZero, FrOne} :
            /\ r # circ.commitments[i].v
            /\ Tampering([circ EXCEPT !.commitments[i] = SomeFr(r)], "commitment", i, 0)

\* An authentic leaf and path of the committed tree, for another position.
WrongPosition ==
    /\ pc = "circuit"
    /\ \E i \in 1 .. Len(circ.paths) : \E j \in 0 .. (leaves - 1) :
        /\ j # slice_mod(challenges[i], leaves)
        /\ Tampering(
              [circ EXCEPT
                 !.challenged_leafs[i] = SomeFr(Leaf(seeds[i], j)),
                 !.paths[i] = [l \in 1 .. GraphHeight(leaves) |->
                                 LET e == GenProof(seeds[i], leaves, j)[l]
                                 IN  SomeStep(e.v, e.bit)]],
              "position", i, j)

DropLeaf ==
    /\ pc = "circuit"
    /\ \E i \in 1 .. Len(circ.challenged_leafs) :
        Tampering([circ EXCEPT !.challenged_leafs[i] = NoneFr], "absent", i, 0)

DropCommitment ==
    /\ pc = "circuit"
    /\ \E i \in 1 .. Len(circ.commitments) :
        Tampering([circ EXCEPT !.commitments[i] = NoneFr], "absent", i, 0)

DropStep ==
    /\ pc = "circuit"
    /\ \E i \in 1 .. Len(circ.paths) : \E l \in 1 .. Len(circ.paths[i]) :
        Tampering([circ EXCEPT !.paths[i][l] = NoneStep], "absent", i, l)

\* The instance of parameter generation: the shape, and no witness at all.
DropAll ==
    /\ pc = "circuit"
    /\ Len(circ.challenged_leafs) > 0
    /\ Tampering(
          [challenged_leafs |-> [i \in 1 .. Len(circ.challenged_leafs) |-> NoneFr],
           commitments |-> [i \in 1 .. Len(circ.commitments) |-> NoneFr],
           paths |-> [i \in 1 .. Len(circ.paths) |->
                        [l \in 1 .. Len(circ.paths[i]) |-> NoneStep]]],
          "absent", 0, 0)

DropLast(q) == SubSeq(q, 1, Len(q) - 1)

Truncate ==
    \/ /\ pc = "circuit"
       /\ circ.challenged_leafs # <<>>
       /\ Tampering([circ EXCEPT !.challenged_leafs = DropLast(@)], "length", 0, 0)
    \/ /\ pc = "circuit"
       /\ circ.paths # <<>>
       /\ Tampering([circ EXCEPT !.paths = DropLast(@)], "length", 0, 0)
    \/ /\ pc = "circuit"
       /\ circ.commitments # <<>>
       /\ Tampering([circ EXCEPT !.commitments = DropLast(@)], "length", 0, 0)

\* instance.synthesize(&mut cs) on a fresh constraint system of kind md.
Synthesize ==
    \E md \in {"witness", "setup"} :
        /\ pc \in {"circuit", "tampered"}
        /\ LET r == synthesize(circ, md, cs)
           IN  /\ cs' = r.cs
               /\ result' = r.err
        /\ mode' = md
        /\ pc' = "done"
        /\ UNCHANGED <<leaves, challenges, seeds, commitments, proof, circ, tamper, inputs>>
        /\ UNCHANGED slothVars

Encode ==
    /\ pc = "sloth"
    /\ ciphertext' = encode(key, plaintext)
    /\ pc' = "encoded"
    /\ UNCHANGED <<key, plaintext, dkey, decrypted>>
    /\ UNCHANGED <<leaves, challenges, seeds, commitments, proof, circ, tamper,
                   mode, cs, result, inputs>>

Decode ==
    \E k \in Fr :
        /\ pc = "encoded"
        /\ dkey' = k
        /\ decrypted' = decode(k, ciphertext)
        /\ pc' = "decoded"
        /\ UNCHANGED <<key, plaintext, ciphertext>>
        /\ UNCHANGED <<leaves, challenges, seeds, commitments, proof, circ, tamper,
                       mode, cs, result, inputs>>

Next ==
    \/ GeneratePublicInputs
    \/ Prove
    \/ Circuit
    \/ CorruptSibling
    \/ FlipBit
    \/ CorruptLeaf
    \/ SwapCommitment
    \/ WrongPosition
    \/ DropLeaf
    \/ DropCommitment
    \/ DropStep
    \/ DropAll
    \/ Truncate
    \/ Synthesize

NextSloth == Encode \/ Decode

Spec == Init /\ [][Next]_vars
SpecTest == InitTest /\ [][Next]_vars
SpecSloth == InitSloth /\ [][NextSloth]_vars

\* ---------------------------------------------------------------- claims
Done == pc = "done"
Witnessed == pc = "done" /\ mode = "witness"
N == Len(circ.challenged_leafs)
SameLengths ==
    /\ Len(circ.challenged_leafs) = Len(circ.paths)
    /\ Len(circ.paths) = Len(circ.commitments)
Depth == GraphHeight(leaves)

\* The public inputs the constraint system declares after ONE.
PublicOutputs == [j \in 1 .. (Len(cs.inputs) - 1) |-> cs.inputs[j + 1].v]
PathBits(i) == [l \in 1 .. Len(circ.paths[i]) |-> circ.paths[i][l].bit]
Reached(i) == HashUp(circ.challenged_leafs[i].v, circ.paths[i], Len(circ.paths[i]))

HasAbsent ==
    \/ \E i \in 1 .. Len(circ.challenged_leafs) : ~circ.challenged_leafs[i].some
    \/ \E i \in 1 .. Len(circ.commitments) : ~circ.commitments[i].some
    \/ \E i \in 1 .. Len(circ.paths) : \E l \in 1 .. Len(circ.paths[i]) :
          ~circ.paths[i][l].some

\* C1: for the instance circuit() builds from a vanilla proof (any number of
\* challenges, any depth), synthesize succeeds, the constraint system is
\* satisfied, and the inputs declared after ONE are exactly the vector
\* generate_public_inputs returned for the same public data.
C1_ValidInstanceSatisfiedAndInputsAgree ==
    (Witnessed /\ tamper.kind = "none" /\ SameLengths)
        => /\ result = "Ok"
           /\ Satisfied(cs)
           /\ PublicOutputs = inputs

C1_Witness ==
    /\ Witnessed /\ tamper.kind = "none" /\ result = "Ok"
    /\ N = 2 /\ Depth = 2
    /\ Satisfied(cs)
    /\ Len(inputs) = 4

\* C2: on sequences of unequal length synthesize returns an error value that
\* is neither success, nor a panic, nor AssignmentMissing, and the constraint
\* system is untouched.
C2_LengthMismatchIsAnErrorValue ==
    (Done /\ ~SameLengths)
        => /\ result \notin {"Ok", "Panic", "AssignmentMissing"}
           /\ cs = NewCS

\* C3 as stated: one changed sibling or one flipped direction bit in a valid
\* instance always leaves the constraint system unsatisfied.
C3_AnySingleCorruptionUnsatisfied ==
    (Witnessed /\ SameLengths /\ tamper.kind \in {"sibling", "bit"})
        => (result = "Ok" /\ ~Satisfied(cs))

\* The node the path of challenge i has reached before its level l.
NodeBelow(i, l) == HashUp(circ.challenged_leafs[i].v, circ.paths[i], l - 1)

\* C3 amended: one changed sibling always leaves the system unsatisfied; one
\* flipped direction bit does so when the node and its sibling at that level
\* differ; when they are equal the system stays satisfied and the flip shows
\* only in the packed public input, which no longer equals the generated one.
C3_SingleCorruptionUnsatisfiedUnlessEqualSiblings ==
    (Witnessed /\ SameLengths /\ tamper.kind \in {"sibling", "bit"})
        => /\ result = "Ok"
           /\ (tamper.kind = "sibling" => ~Satisfied(cs))
           /\ (tamper.kind = "bit" =>
                 IF NodeBelow(tamper.i, tamper.l) # circ.paths[tamper.i][tamper.l].v
                 THEN ~Satisfied(cs)
                 ELSE Satisfied(cs) /\ PublicOutputs # inputs)

C3_Witness ==
    /\ Witnessed /\ SameLengths /\ tamper.kind = "bit" /\ result = "Ok"
    /\ tamper.l = 2
    /\ NodeBelow(tamper.i, tamper.l) # circ.paths[tamper.i][tamper.l].v
    /\ ~Satisfied(cs)

\* C4: the constraint system is satisfied exactly when, for every challenge,
\* hashing up from the witnessed leaf along the path reaches the witnessed
\* commitment (for depth 0: leaf = commitment); a valid instance whose
\* commitment was replaced by another root is unsatisfied.
C4_SatisfiedIffHashUpReachesCommitment ==
    (Witnessed /\ result = "Ok")
        => /\ Satisfied(cs) <=> (\A i \in 1 .. N : Reached(i) = circ.commitments[i].v)
           /\ (Depth = 0 =>
                 (Satisfied(cs) <=>
                    \A i \in 1 .. N : circ.challenged_leafs[i].v = circ.commitments[i].v))
           /\ (tamper.kind = "commitment" => ~Satisfied(cs))

C4_Witness ==
    /\ Witnessed /\ result = "Ok" /\ tamper.kind = "commitment"
    /\ Depth = 2 /\ N = 2
    /\ \E i \in 1 .. N : circ.paths[i][1].bit /\ Reached(i) = circ.commitments[i].v
    /\ ~Satisfied(cs)

\* The instance with every absent value filled in.
Filled ==
    [challenged_leafs |-> [i \in 1 .. Len(circ.challenged_leafs) |-> SomeFr(FrZero)],
     commitments |-> [i \in 1 .. Len(circ.commitments) |-> SomeFr(FrZero)],
     paths |-> [i \in 1 .. Len(circ.paths) |->
                  [l \in 1 .. Len(circ.paths[i]) |-> SomeStep(FrZero, FALSE)]]]

SameShape(c, d) ==
    /\ Len(c.inputs) = Len(d.inputs)
    /\ Len(c.aux) = Len(d.aux)
    /\ c.constraints = d.constraints

\* C5: on an instance (equal lengths) with an absent value, synthesize never
\* panics; a setup system completes with the variables, constraints and
\* inputs a full witness gives; a witnessing system returns
\* AssignmentMissing, so the instance is never reported as satisfied.
C5_AbsentWitnessIsAssignmentMissing ==
    (Done /\ SameLengths)
        => /\ result # "Panic"
           /\ (mode = "setup" =>
                 /\ result = "Ok"
                 /\ SameShape(cs, synthesize(Filled, "witness", NewCS).cs))
           /\ ((mode = "witness" /\ HasAbsent) => result = "AssignmentMissing")
           /\ ((mode = "witness" /\ result = "Ok") => ~HasAbsent)

C5_Witness ==
    /\ Done /\ SameLengths /\ mode = "witness"
    /\ tamper.kind = "absent" /\ tamper.l = 2
    /\ result = "AssignmentMissing"

\* C6: the circuit declares ONE, then per challenge, in instance order, the
\* packed direction bits followed by the commitment: 1 + 2N inputs for
\* 1 <= D <= capacity; generate_public_inputs returns per (challenge,
\* commitment) pair, in order, the packed bits of the challenged index
\* followed by the commitment.
C6_SegmentsInChallengeOrder ==
    /\ (Witnessed /\ result = "Ok" /\ Depth >= 1 /\ Depth <= FrCapacity)
          => /\ Len(cs.inputs) = 1 + 2 * N
             /\ cs.inputs[1].v = FrOne
             /\ \A i \in 1 .. N :
                   /\ cs.inputs[2 * i].v = Raw(PackBits(PathBits(i)))
                   /\ cs.inputs[2 * i + 1].v = circ.commitments[i].v
    /\ (pc # "start" /\ Depth >= 1 /\ Depth <= FrCapacity)
          => \A i \in 1 .. Min(Len(challenges), Len(commitments)) :
                /\ inputs[2 * i - 1] = Raw(challenges[i] % leaves)
                /\ inputs[2 * i] = commitments[i]

C6_Witness ==
    /\ Witnessed /\ result = "Ok" /\ tamper.kind = "none"
    /\ N = 2 /\ Depth = 2
    /\ Len(cs.inputs) = 5
    /\ cs.inputs[2].v # cs.inputs[4].v
    /\ cs.inputs[3].v # cs.inputs[5].v

\* C7 as stated: two challenges on trees of 32 leaves give 5 packed elements
\* and 1 commitment per challenge, and a satisfied system.
C7_FivePackedElementsPerChallenge ==
    (Witnessed /\ tamper.kind = "none" /\ leaves = TestLeaves /\ N = TestSectors)
        => /\ Satisfied(cs)
           /\ Len(cs.inputs) - 1 = N * (5 + 1)

\* C7 amended: two challenges on trees of 32 leaves give 1 packed element
\* (holding the 5 direction bits) and 1 commitment per challenge, 5 inputs
\* with ONE, and a satisfied system.
C7_OnePackedElementPerChallenge ==
    (Witnessed /\ tamper.kind = "none" /\ leaves = TestLeaves /\ N = TestSectors)
        => /\ result = "Ok"
           /\ Satisfied(cs)
           /\ Len(cs.inputs) - 1 = N * (1 + 1)
           /\ Len(cs.inputs) = 5
           /\ \A i \in 1 .. N :
                 /\ Len(circ.paths[i]) = 5
                 /\ cs.inputs[2 * i].v = Raw(PackBits(PathBits(i)))

C7_Witness ==
    /\ Witnessed /\ tamper.kind = "none" /\ leaves = TestLeaves /\ N = TestSectors
    /\ Satisfied(cs)
    /\ Len(cs.inputs) = 5
    /\ seeds[1] = seeds[2]

\* C8: decoding with the key used to encode returns the plaintext, also when
\* plaintext + key wraps around the modulus; decoding with any other key
\* does not.
C8_SlothRoundTrip ==
    (pc = "decoded")
        => /\ ciphertext = (plaintext + key) % FrModulus
           /\ (dkey = key => decrypted = plaintext)
           /\ (dkey # key => decrypted # plaintext)

C8_Witness ==
    /\ pc = "decoded" /\ dkey = key
    /\ plaintext + key >= FrModulus
    /\ decrypted = plaintext

\* C9: an authentic leaf and path of the committed tree for a position other
\* than challenge mod leaves synthesizes and satisfies every constraint, but
\* its declared inputs differ from the generated vector; and whenever the
\* system is satisfied and the declared inputs equal the generated vector,
\* every path is for the challenged position.
C9_WrongPositionCaughtOnlyByPublicInputs ==
    /\ (Witnessed /\ SameLengths /\ tamper.kind = "position")
          => /\ result = "Ok"
             /\ Satisfied(cs)
             /\ PublicOutputs # inputs
    /\ (Witnessed /\ result = "Ok" /\ Satisfied(cs) /\ PublicOutputs = inputs)
          => \A i \in 1 .. N : PackBits(PathBits(i)) = challenges[i] % leaves

C9_Witness ==
    /\ Witnessed /\ SameLengths /\ tamper.kind = "position"
    /\ Depth = 2
    /\ result = "Ok" /\ Satisfied(cs)
    /\ PublicOutputs # inputs

\* C10: generate_public_inputs returns min(a, b) segments for a challenges
\* and b commitments, pairing them by index (nothing when either is empty),
\* while synthesize on sequences of unequal length does not complete.
C10_GeneratorZipsSynthesizeAborts ==
    /\ (pc # "start")
          => LET m == Min(Len(challenges), Len(commitments))
                 w == IF Depth = 0 THEN 1 ELSE 2
             IN  /\ Len(inputs) = m * w
                 /\ \A i \in 1 .. m : inputs[w * i] = commitments[i]
    /\ (Done /\ ~SameLengths) => result # "Ok"

C10_Witness ==
    /\ Done /\ ~SameLengths /\ result = "Panic"
    /\ Len(challenges) = 1 /\ Len(commitments) = 2
    /\ Len(inputs) = 2

====
